---- MODULE Spec2Model ----
(***************************************************************************)
(* Model of the uniter's relation package: relation.State and its          *)
(* Validate method, and relation.StateDir, the filesystem-backed store     *)
(* (ReadStateDir, Ensure, Write), driven by the sequential                 *)
(* validate -> run hook -> Write loop of the unit agent.                   *)
(*                                                                         *)
(* Strings are sequences of one-character strings, so that the unit-name   *)
(* <-> file-name conversion is computed rather than assumed.               *)
(***************************************************************************)
EXTENDS Integers, Sequences, FiniteSets, TLC

(* ------------------------------ bounds --------------------------------- *)

\* Change versions carried by joined/changed events range over 1..MaxVersion.
MaxVersion == 2

\* Length of the sliding windows of recorded events kept as history.
MaxLog == 2

(* ------------------------------ strings -------------------------------- *)

EmptyString == << >>

Digits == {"0", "1", "2", "3", "4", "5", "6", "7", "8", "9"}

\* Characters in byte order, for the name order of ioutil.ReadDir.
Alphabet == <<"+", "-", "/", "0", "1", "2", "3", "4", "5", "6", "7", "8", "9",
              "g", "l", "m", "o", "s", "w">>

CharOrd(c) == CHOOSE i \in 1..Len(Alphabet) : Alphabet[i] = c

\* a < b in byte-wise lexicographic order
RECURSIVE StrLess(_, _)
StrLess(a, b) ==
    IF Len(b) = 0 THEN FALSE
    ELSE IF Len(a) = 0 THEN TRUE
    ELSE IF a[1] # b[1] THEN CharOrd(a[1]) < CharOrd(b[1])
    ELSE StrLess(Tail(a), Tail(b))

\* strings.Index(s, c): zero-based index of the first c in s, or -1.
Index(s, c) ==
    IF \E i \in 1..Len(s) : s[i] = c
    THEN (CHOOSE i \in 1..Len(s) :
              s[i] = c /\ \A j \in 1..(i - 1) : s[j] # c) - 1
    ELSE -1

\* strings.LastIndex(s, c): zero-based index of the last c in s, or -1.
LastIndex(s, c) ==
    IF \E i \in 1..Len(s) : s[i] = c
    THEN (CHOOSE i \in 1..Len(s) :
              s[i] = c /\ \A j \in (i + 1)..Len(s) : s[j] # c) - 1
    ELSE -1

\* strings.Replace(s, old, new, 1) for one-character old and new.
Replace1(s, old, new) ==
    IF \E i \in 1..Len(s) : s[i] = old
    THEN LET i == CHOOSE i \in 1..Len(s) :
                      s[i] = old /\ \A j \in 1..(i - 1) : s[j] # old
         IN SubSeq(s, 1, i - 1) \o <<new>> \o SubSeq(s, i + 1, Len(s))
    ELSE s

\* Whether strconv.Atoi(s) returns no error: an optional sign, then digits.
AtoiOk(s) ==
    LET body == IF Len(s) > 0 /\ s[1] \in {"+", "-"} THEN Tail(s) ELSE s
    IN Len(body) > 0 /\ \A i \in 1..Len(body) : body[i] \in Digits

\* The value strconv.Atoi(s) returns when it returns no error.
RECURSIVE DigitsValue(_)
DigitsValue(s) ==
    IF s = << >> THEN 0
    ELSE 10 * DigitsValue(SubSeq(s, 1, Len(s) - 1)) + (CharOrd(s[Len(s)]) - 4)

Atoi(s) ==
    IF s[1] = "-" THEN 0 - DigitsValue(Tail(s))
    ELSE IF s[1] = "+" THEN DigitsValue(Tail(s))
    ELSE DigitsValue(s)

\* strconv.Itoa(n) for n >= 0.
RECURSIVE Itoa(_)
Itoa(n) ==
    LET d == <<Alphabet[4 + (n % 10)]>>
    IN IF n < 10 THEN d ELSE Itoa(n \div 10) \o d

(* ------------------------------ inputs --------------------------------- *)

\* Remote unit names, "<service>/<number>"; a service name may hold hyphens.
Units == { <<"w", "/", "0">>, <<"m", "-", "s", "/", "1">> }

\* The relations with a state directory under the root.
RelationIds == {7, 8}

RelationJoined == "relation-joined"
RelationChanged == "relation-changed"
RelationDeparted == "relation-departed"
RelationBroken == "relation-broken"

Versions == 1..MaxVersion

\* hook.Info values delivered by the event source.
HookInfos ==
    [Kind : {RelationJoined, RelationChanged}, RelationId : RelationIds,
     RemoteUnit : Units, ChangeVersion : Versions]
    \cup [Kind : {RelationDeparted}, RelationId : RelationIds,
          RemoteUnit : Units, ChangeVersion : {0}]
    \cup [Kind : {RelationBroken}, RelationId : RelationIds,
          RemoteUnit : {EmptyString}, ChangeVersion : {0}]

\* The events offered to the pipeline of relation r: every event of r, and
\* events of the other relations delivered to it by mistake.
OwnInfos(r) == {hi \in HookInfos : hi.RelationId = r}
ForeignInfos(r) ==
    {hi \in HookInfos : /\ hi.RelationId # r
                        /\ hi.ChangeVersion <= 1
                        /\ hi.RemoteUnit \in {EmptyString, <<"w", "/", "0">>}}
Offers(r) == OwnInfos(r) \cup ForeignInfos(r)

NoInfo == [Kind |-> "", RelationId |-> 0, RemoteUnit |-> EmptyString,
           ChangeVersion |-> 0]

(* ------------------------------- State --------------------------------- *)

\* A Go map[string]int: nil, or a finite function from names to versions.
EmptyMap == [u \in {} |-> 0]
NilMap == [nil |-> TRUE, kv |-> EmptyMap]
MakeMap(f) == [nil |-> FALSE, kv |-> f]

MapLen(m) == Cardinality(DOMAIN m.kv)
MapHas(m, k) == k \in DOMAIN m.kv
\* m[k] = v on a non-nil map
MapPut(m, k, v) ==
    MakeMap([x \in (DOMAIN m.kv) \cup {k} |-> IF x = k THEN v ELSE m.kv[x]])
\* A delete that empties the map.
MapDeleteAll(m, k) == IF m.nil THEN m ELSE MakeMap(EmptyMap)

\* delete(m, k): a no-op on a nil map and on a missing key
MapDelete(m, k) ==
    IF m.nil THEN m ELSE MakeMap([x \in (DOMAIN m.kv) \ {k} |-> m.kv[x]])

NewState(relationId) ==
    [RelationId |-> relationId, Members |-> MakeMap(EmptyMap),
     ChangedPending |-> EmptyString]

\* Validation results: nil, or the error Validate builds.
ErrNil == [kind |-> "nil", unit |-> EmptyString]
Err(kind) == [kind |-> kind, unit |-> EmptyString]
WrongRelation == Err("WrongRelation")
RelationAlreadyBroken == Err("RelationAlreadyBroken")
UnitsStillPresent == Err("UnitsStillPresent")
AlreadyJoined == Err("AlreadyJoined")
NotJoined == Err("NotJoined")
\* `expected "relation-changed" for %q`, naming the pending unit
PendingChangeRequired(unit) == [kind |-> "PendingChangeRequired", unit |-> unit]

\* Validate, lines 64-67: a changed-pending unit is set.
PendingCheckAnyKind(s, hi) ==
    IF hi.RemoteUnit # s.ChangedPending
    THEN PendingChangeRequired(s.ChangedPending)
    ELSE ErrNil

\* A pending check that accepts no event.
PendingCheckRejects(s, hi) == PendingChangeRequired(s.ChangedPending)

PendingCheck(s, hi) ==
    IF hi.RemoteUnit # s.ChangedPending \/ hi.Kind # RelationChanged
    THEN PendingChangeRequired(s.ChangedPending)
    ELSE ErrNil

\* Validate, lines 68-73: no changed-pending unit is set.
MembershipCheckOnlyJoined(s, hi) ==
    IF MapHas(s.Members, hi.RemoteUnit) /\ hi.Kind = RelationJoined
    THEN AlreadyJoined
    ELSE ErrNil

MembershipCheckOnlyNotJoined(s, hi) ==
    IF ~MapHas(s.Members, hi.RemoteUnit) /\ hi.Kind # RelationJoined
    THEN NotJoined
    ELSE ErrNil

MembershipCheck(s, hi) ==
    IF MapHas(s.Members, hi.RemoteUnit) /\ hi.Kind = RelationJoined
    THEN AlreadyJoined
    ELSE IF ~MapHas(s.Members, hi.RemoteUnit) /\ hi.Kind # RelationJoined
    THEN NotJoined
    ELSE ErrNil

\* Validate, lines 58-63: a relation-broken hook.
BrokenCheckAfterPending(s, hi) ==
    IF s.ChangedPending # EmptyString THEN PendingCheck(s, hi)
    ELSE IF MapLen(s.Members) = 0 THEN ErrNil ELSE UnitsStillPresent

BrokenCheck(s, hi) ==
    IF MapLen(s.Members) = 0 THEN ErrNil ELSE UnitsStillPresent

ValidateBrokenNotChecked(s, hi) ==
    IF hi.RelationId # s.RelationId THEN WrongRelation
    ELSE IF hi.Kind = RelationBroken THEN BrokenCheck(s, hi)
    ELSE IF s.ChangedPending # EmptyString THEN PendingCheck(s, hi)
    ELSE MembershipCheck(s, hi)

ValidatePendingNotChecked(s, hi) ==
    IF hi.RelationId # s.RelationId THEN WrongRelation
    ELSE IF s.Members.nil THEN RelationAlreadyBroken
    ELSE IF hi.Kind = RelationBroken THEN BrokenCheck(s, hi)
    ELSE MembershipCheck(s, hi)

Validate(s, hi) ==
    IF hi.RelationId # s.RelationId THEN WrongRelation
    ELSE IF s.Members.nil THEN RelationAlreadyBroken
    ELSE IF hi.Kind = RelationBroken THEN BrokenCheck(s, hi)
    ELSE IF s.ChangedPending # EmptyString THEN PendingCheck(s, hi)
    ELSE MembershipCheck(s, hi)

(* ----------------------------- filesystem ------------------------------ *)

\* A file's content: a YAML mapping with its fields, or anything else.
YamlFile(fields) == [mapping |-> TRUE, fields |-> fields]
Garbage == [mapping |-> FALSE, fields |-> EmptyMap]

\* A directory: whether it exists, and its entries by name.
AbsentDir == [exists |-> FALSE, files |-> EmptyMap]
EmptyDir == [exists |-> TRUE, files |-> EmptyMap]

\* An entry name that is no unit file: its suffix after the last "-" is no integer.
StrayName == <<"l", "o", "g", "-", "s">>
StrayDir == [exists |-> TRUE, files |-> (StrayName :> Garbage)]

\* One directory for every relation.
DirPathShared(relationId) == <<"7">>

\* filepath.Join(dirPath, strconv.Itoa(relationId)), relative to the root
DirPath(relationId) == Itoa(relationId)

\* The root directory itself, dirPath, among the paths of the filesystem.
RootDir == <<".">>

\* Entries of the root that are not named for a relation by strconv.Itoa: a
\* name that is no integer, and an integer written with its sign.
LogsName == <<"l", "o", "g", "s">>
SignedName == <<"+", "7">>
OtherNames == {LogsName, SignedName}

\* diskInfo built without its change version (a nil *int).
DiskInfoNoVersion(changeVersion, changedPending) ==
    [ChangeVersion |-> << >>, ChangedPending |-> changedPending]

\* diskInfo: ChangeVersion is a *int (<<>> for nil, <<v>> for &v).
DiskInfo(changeVersion, changedPending) ==
    [ChangeVersion |-> changeVersion, ChangedPending |-> changedPending]

\* The YAML form of a diskInfo without omitempty: every field is written.
MarshalEveryField(di) ==
    LET cv == IF di.ChangeVersion = << >> THEN EmptyMap
              ELSE ("change-version" :> di.ChangeVersion[1])
    IN YamlFile(cv @@ ("changed-pending" :> di.ChangedPending))

\* The YAML form of a diskInfo: `changed-pending` is omitted when false.
Marshal(di) ==
    LET cv == IF di.ChangeVersion = << >> THEN EmptyMap
              ELSE ("change-version" :> di.ChangeVersion[1])
        cp == IF di.ChangedPending THEN ("changed-pending" :> TRUE) ELSE EmptyMap
    IN YamlFile(cv @@ cp)

\* A diskInfo decoded from a YAML mapping: absent fields keep their zero value.
Unmarshal(file) ==
    DiskInfo(IF "change-version" \in DOMAIN file.fields
             THEN <<file.fields["change-version"]>> ELSE << >>,
             IF "changed-pending" \in DOMAIN file.fields
             THEN file.fields["changed-pending"] ELSE FALSE)

\* trivial.WriteYaml(path, &di): the file holds the marshalled value, or, on
\* any failure, the directory is as it was.
WriteYaml(fs, dir, name, di, fault) ==
    IF fault \/ ~fs[dir].exists
    THEN [err |-> "error", fs |-> fs]
    ELSE [err |-> "nil",
          fs |-> [fs EXCEPT ![dir].files =
                     [n \in (DOMAIN @) \cup {name} |->
                         IF n = name THEN Marshal(di) ELSE @[n]]]]

\* trivial.ReadYaml(path, &info)
ReadYaml(fs, dir, name) ==
    LET file == fs[dir].files[name]
    IN IF file.mapping
       THEN [err |-> "nil", info |-> Unmarshal(file)]
       ELSE [err |-> "error", info |-> DiskInfo(<< >>, FALSE)]

\* os.RemoveAll(d.path): removes a directory and all it holds.
RemoveDirAll(fs, dir, fault) ==
    IF fault THEN [err |-> "EACCES", fs |-> fs]
    ELSE [err |-> "nil", fs |-> [fs EXCEPT ![dir] = AbsentDir]]

\* os.Remove(d.path): removes an empty directory.
RemoveDir(fs, dir, fault) ==
    IF fault THEN [err |-> "EACCES", fs |-> fs]
    ELSE IF ~fs[dir].exists THEN [err |-> "ENOENT", fs |-> fs]
    ELSE IF DOMAIN fs[dir].files # {} THEN [err |-> "ENOTEMPTY", fs |-> fs]
    ELSE [err |-> "nil", fs |-> [fs EXCEPT ![dir] = AbsentDir]]

\* os.Remove(path) of a file of the directory.
RemoveFile(fs, dir, name, fault) ==
    IF fault THEN [err |-> "EACCES", fs |-> fs]
    ELSE IF ~fs[dir].exists \/ name \notin DOMAIN fs[dir].files
         THEN [err |-> "ENOENT", fs |-> fs]
    ELSE [err |-> "nil",
          fs |-> [fs EXCEPT ![dir].files =
                     [n \in (DOMAIN @) \ {name} |-> @[n]]]]

IsNotExist(err) == err = "ENOENT"

\* ioutil.ReadDir: the entry names, sorted.
RECURSIVE SortedNames(_)
SortedNames(names) ==
    IF names = {} THEN << >>
    ELSE LET first == CHOOSE n \in names :
                          \A o \in names \ {n} : StrLess(n, o)
         IN <<first>> \o SortedNames(names \ {first})

(* ------------------------------ StateDir ------------------------------- *)

StateDir(path, state) == [path |-> path, state |-> state]

\* The nil *StateDir returned beside an error.
NilStateDir == StateDir(EmptyString, NewState(0))

\* State.copy / StateDir.State: an independent copy of the cached state.
State(d) ==
    [RelationId |-> d.state.RelationId,
     Members |-> IF d.state.Members.nil THEN NilMap
                 ELSE MakeMap([m \in DOMAIN d.state.Members.kv |->
                                  d.state.Members.kv[m]]),
     ChangedPending |-> d.state.ChangedPending]

\* The loop of ReadStateDir over the directory's entries still to visit.
RECURSIVE ReadEntries(_, _, _)
ReadEntries(fs, names, d) ==
    IF names = << >> THEN [err |-> "nil", d |-> d]
    ELSE LET name == Head(names)
             i == LastIndex(name, "-")
             svcName == SubSeq(name, 1, i)
             unitId == SubSeq(name, i + 2, Len(name))
             unitName == svcName \o <<"/">> \o unitId
             r == ReadYaml(fs, d.path, name)
             info == r.info
             withMember ==
                 [d EXCEPT !.state.Members =
                               MapPut(@, unitName, info.ChangeVersion[1])]
         IN IF i = -1 THEN ReadEntries(fs, Tail(names), d)
            ELSE IF ~AtoiOk(unitId) THEN ReadEntries(fs, Tail(names), d)
            ELSE IF r.err # "nil"
                 THEN [err |-> "invalid unit file", d |-> NilStateDir]
            ELSE IF info.ChangeVersion = << >>
                 THEN [err |-> "changed-version not set", d |-> NilStateDir]
            ELSE IF info.ChangedPending
                 THEN IF d.state.ChangedPending # EmptyString
                      THEN [err |-> "both have pending changed hooks",
                            d |-> NilStateDir]
                      ELSE ReadEntries(fs, Tail(names),
                               [withMember EXCEPT
                                    !.state.ChangedPending = unitName])
            ELSE ReadEntries(fs, Tail(names), withMember)

\* ReadStateDir taking a missing directory for an error.
ReadStateDirMissingFails(fs, relationId) ==
    LET d == StateDir(DirPath(relationId), NewState(relationId))
    IN IF ~fs[d.path].exists THEN [err |-> "ENOENT", d |-> NilStateDir]
       ELSE ReadEntries(fs, SortedNames(DOMAIN fs[d.path].files), d)

\* ReadStateDir taking a missing directory for a broken relation.
ReadStateDirMissingBroken(fs, relationId) ==
    LET d == StateDir(DirPath(relationId), NewState(relationId))
    IN IF ~fs[d.path].exists
       THEN [err |-> "nil", d |-> [d EXCEPT !.state.Members = NilMap]]
       ELSE ReadEntries(fs, SortedNames(DOMAIN fs[d.path].files), d)

ReadStateDir(fs, relationId) ==
    LET d == StateDir(DirPath(relationId), NewState(relationId))
    IN IF ~fs[d.path].exists THEN [err |-> "nil", d |-> d]
       ELSE ReadEntries(fs, SortedNames(DOMAIN fs[d.path].files), d)

\* ReadAllStateDirs, lines 167-169: the load of a relation failed.
AbortedKeepsLoaded(dirs, err) == [err |-> err, dirs |-> dirs]

Aborted(dirs, err) == [err |-> err, dirs |-> NilMap]

\* The loop of ReadAllStateDirs over the root's entries still to visit.
RECURSIVE ReadRelations(_, _, _)
ReadRelations(fs, names, dirs) ==
    IF names = << >> THEN [err |-> "nil", dirs |-> dirs]
    ELSE LET name == Head(names)
             relationId == Atoi(name)
             l == ReadStateDir(fs, relationId)
         IN IF ~AtoiOk(name) THEN ReadRelations(fs, Tail(names), dirs)
            ELSE IF l.err # "nil" THEN Aborted(dirs, l.err)
            ELSE ReadRelations(fs, Tail(names), MapPut(dirs, relationId, l.d))

\* The names ioutil.ReadDir(dirPath) returns.
RootEntries(fs) == {n \in (DOMAIN fs) \ {RootDir} : fs[n].exists}

ReadAllStateDirs(fs) ==
    IF ~fs[RootDir].exists THEN [err |-> "nil", dirs |-> NilMap]
    ELSE ReadRelations(fs, SortedNames(RootEntries(fs)), MakeMap(EmptyMap))

\* The unit's name taken for its record file name as it is.
UnitFileNameRaw(remoteUnit) == remoteUnit

\* The unit's record file name: the first "/" becomes "-".
UnitFileName(remoteUnit) == Replace1(remoteUnit, "/", "-")

\* Whether Write goes on after os.Remove returned err: "already absent" is
\* tolerated.
RemovedStrict(err) == err = "nil"

Removed(err) == err = "nil" \/ IsNotExist(err)

\* The changed-pending unit after a joined or changed hook was written.
ChangedPendingKept(d, hi) ==
    IF hi.Kind = RelationJoined THEN hi.RemoteUnit ELSE d.state.ChangedPending

ChangedPendingNever(d, hi) == EmptyString

ChangedPendingAfter(d, hi) ==
    IF hi.Kind = RelationJoined THEN hi.RemoteUnit ELSE EmptyString

\* Write of relation-broken: the directory is removed, Members becomes nil.
WriteBroken(d, fs, hi, fault) ==
    LET rm == RemoveDir(fs, d.path, fault)
    IN IF ~Removed(rm.err)
       THEN [result |-> "error", d |-> d, fs |-> fs]
       ELSE [result |-> "nil", fs |-> rm.fs,
             d |-> [d EXCEPT !.state.Members = NilMap]]

\* Write of relation-departed: the unit's file is removed, then its member.
WriteDepartedCacheFirst(d, fs, hi, fault) ==
    LET rm == RemoveFile(fs, d.path, UnitFileName(hi.RemoteUnit), fault)
        gone == [d EXCEPT !.state.Members = MapDelete(@, hi.RemoteUnit)]
    IN IF ~Removed(rm.err)
       THEN [result |-> "error", d |-> gone, fs |-> fs]
       ELSE [result |-> "nil", fs |-> rm.fs, d |-> gone]

WriteDeparted(d, fs, hi, fault) ==
    LET rm == RemoveFile(fs, d.path, UnitFileName(hi.RemoteUnit), fault)
    IN IF ~Removed(rm.err)
       THEN [result |-> "error", d |-> d, fs |-> fs]
       ELSE [result |-> "nil", fs |-> rm.fs,
             d |-> [d EXCEPT !.state.Members = MapDelete(@, hi.RemoteUnit)]]

\* Write of relation-joined and relation-changed: the unit's file is
\* written, then the member and the changed-pending unit are set. Assigning
\* to an entry of the nil Members map panics.
WriteUnit(d, fs, hi, fault) ==
    LET di == DiskInfo(<<hi.ChangeVersion>>, hi.Kind = RelationJoined)
        w == WriteYaml(fs, d.path, UnitFileName(hi.RemoteUnit), di, fault)
    IN IF w.err # "nil"
       THEN [result |-> "error", d |-> d, fs |-> fs]
       ELSE IF d.state.Members.nil
       THEN [result |-> "panic", d |-> d, fs |-> w.fs]
       ELSE [result |-> "nil", fs |-> w.fs,
             d |-> [d EXCEPT
                 !.state.Members = MapPut(@, hi.RemoteUnit, hi.ChangeVersion),
                 !.state.ChangedPending = ChangedPendingAfter(d, hi)]]

\* StateDir.Write: the result is "nil", "error", or "panic".
Write(d, fs, hi, fault) ==
    IF hi.Kind = RelationBroken THEN WriteBroken(d, fs, hi, fault)
    ELSE IF hi.Kind = RelationDeparted THEN WriteDeparted(d, fs, hi, fault)
    ELSE WriteUnit(d, fs, hi, fault)

\* trivial.EnsureDir(d.path): creates the directory, and the root when it is
\* missing, unless the directory exists.
EnsureDir(fs, dir, fault) ==
    IF fs[dir].exists THEN [err |-> "nil", fs |-> fs]
    ELSE IF fault THEN [err |-> "error", fs |-> fs]
    ELSE [err |-> "nil", fs |-> [fs EXCEPT ![dir] = EmptyDir,
                                           ![RootDir] = EmptyDir]]

(* ------------------------------- state --------------------------------- *)

VARIABLES
    root,         \* the filesystem: path under the root (and the root) -> directory
    sd,           \* relation id -> the agent's StateDir for it
    pc,           \* relation id -> position of its pipeline: "idle", "run"
                  \*   (hook validated, not yet recorded), "crashed" (the agent
                  \*   died), "failed" (the directory could not be loaded),
                  \*   "stopped" (no StateDir is held for the relation)
    cur,          \* relation id -> the hook.Info validated and being run
    last,         \* relation id -> the last operation on it and its result
    recorded,     \* relation id -> the last MaxLog events recorded by the loop
    unitLog,      \* relation id -> unit -> the last MaxLog kinds recorded for it
    offer,        \* relation id -> how the events offered so far follow the protocol
    disciplined,  \* relation id -> every Write so far was of a validated event
    driven        \* the relations whose pipeline runs

vars == <<root, sd, pc, cur, last, recorded, unitLog, offer, disciplined, driven>>

Paths == {DirPath(r) : r \in RelationIds}
Names == Paths \cup OtherNames \cup {RootDir}

\* Entries exist only inside a root that exists.
WellFormed(fs) ==
    ~fs[RootDir].exists => \A n \in Names : ~fs[n].exists

Op(op, hi, err, fault, again) ==
    [op |-> op, hi |-> hi, err |-> err, fault |-> fault, again |-> again]

\* A window of the last MaxLog entries.
Push(w, e) ==
    LET s == Append(w, e) IN IF Len(s) > MaxLog THEN Tail(s) ELSE s

Event(hi) == [Kind |-> hi.Kind, RemoteUnit |-> hi.RemoteUnit]

\* The history after Write recorded hi.
Recorded(log, hi) == Push(log, Event(hi))
UnitRecorded(ulog, hi) ==
    IF hi.RemoteUnit \in Units
    THEN [ulog EXCEPT ![hi.RemoteUnit] = Push(@, hi.Kind)]
    ELSE ulog

NoLog == << >>
NoUnitLog == [u \in Units |-> <<"none">>]

\* The event source's view of the protocol: each unit is "out", "joined"
\* (its first changed is owed) or "in"; perUnit and adjacent tell whether all
\* events offered so far followed the per-unit order, and that order with
\* every joined directly followed by the changed of the same unit. The view
\* is live until an event is rejected or is not recorded.
NoOffer ==
    [phase |-> [u \in Units |-> "out"], torn |-> FALSE,
     perUnit |-> TRUE, adjacent |-> TRUE, live |-> TRUE]
VoidOffer ==
    [NoOffer EXCEPT !.perUnit = FALSE, !.adjacent = FALSE, !.live = FALSE]

PerUnitLegal(o, r, hi) ==
    /\ hi.RelationId = r
    /\ ~o.torn
    /\ \/ hi.Kind = RelationJoined /\ o.phase[hi.RemoteUnit] = "out"
       \/ hi.Kind = RelationChanged /\ o.phase[hi.RemoteUnit] \in {"joined", "in"}
       \/ hi.Kind = RelationDeparted /\ o.phase[hi.RemoteUnit] = "in"
       \/ hi.Kind = RelationBroken /\ \A u \in Units : o.phase[u] = "out"

AdjacentLegal(o, r, hi) ==
    /\ PerUnitLegal(o, r, hi)
    /\ \A u \in Units : o.phase[u] = "joined" =>
           hi.Kind = RelationChanged /\ hi.RemoteUnit = u

\* The view after hi was offered and Validate answered err.
Offered(o, r, hi, err) ==
    IF ~(o.live /\ o.perUnit /\ PerUnitLegal(o, r, hi)) THEN VoidOffer
    ELSE IF err # ErrNil
    THEN [NoOffer EXCEPT !.adjacent = o.adjacent /\ AdjacentLegal(o, r, hi),
                         !.live = FALSE]
    ELSE [phase |-> IF hi.Kind = RelationBroken THEN o.phase
                    ELSE [o.phase EXCEPT ![hi.RemoteUnit] =
                             IF hi.Kind = RelationJoined THEN "joined"
                             ELSE IF hi.Kind = RelationChanged THEN "in"
                             ELSE "out"],
          torn |-> hi.Kind = RelationBroken,
          perUnit |-> TRUE,
          adjacent |-> o.adjacent /\ AdjacentLegal(o, r, hi),
          live |-> TRUE]

\* The view after an operation that offers no event.
Settled(o) == IF o.live THEN o ELSE VoidOffer

\* The agent starts the pipelines of the relations rels; o is the event
\* source's view at the start.
InitWith(rels, o) ==
    /\ driven = rels
    /\ root \in [Names -> {AbsentDir, EmptyDir, StrayDir}]
    /\ root[RootDir] # StrayDir /\ WellFormed(root)
    /\ \A n \in Names \ ({DirPath(r) : r \in rels} \cup {RootDir}) :
           root[n] = AbsentDir
    /\ sd = [r \in RelationIds |-> ReadStateDir(root, r).d]
    /\ pc = [r \in RelationIds |-> "idle"]
    /\ cur = [r \in RelationIds |-> NoInfo]
    /\ last = [r \in RelationIds |->
                  Op("ReadStateDir", NoInfo, ErrNil, FALSE, FALSE)]
    /\ recorded = [r \in RelationIds |-> NoLog]
    /\ unitLog = [r \in RelationIds |-> NoUnitLog]
    /\ offer = [r \in RelationIds |-> o]
    /\ disciplined = [r \in RelationIds |-> TRUE]

InitFor(rels) == InitWith(rels, NoOffer)

Init == InitFor({7})

(* ------------------------------ actions -------------------------------- *)

\* What a validation error tells of the event: "inappropriate <Kind> for
\* <RemoteUnit>", and the relation ids when they differ.
Named(hi) == [hi EXCEPT !.ChangeVersion = 0]

\* The loop asks the StateDir for its State and validates the next event.
DoValidate(r, hi) ==
    /\ pc[r] = "idle"
    /\ LET err == Validate(State(sd[r]), hi)
       IN /\ last' = [last EXCEPT ![r] =
                         Op("Validate", IF err = ErrNil THEN hi ELSE Named(hi),
                            err, FALSE, FALSE)]
          /\ pc' = [pc EXCEPT ![r] = IF err = ErrNil THEN "run" ELSE "idle"]
          /\ cur' = [cur EXCEPT ![r] = IF err = ErrNil THEN hi ELSE NoInfo]
    /\ offer' = [offer EXCEPT ![r] = Offered(@, r, hi, Validate(State(sd[r]), hi))]
    /\ UNCHANGED <<root, sd, recorded, unitLog, disciplined, driven>>

\* The validated hook fails to run: nothing is recorded.
HookFails(r) ==
    /\ pc[r] = "run"
    /\ pc' = [pc EXCEPT ![r] = "idle"]
    /\ cur' = [cur EXCEPT ![r] = NoInfo]
    /\ last' = [last EXCEPT ![r] = Op("HookFails", NoInfo, ErrNil, FALSE, FALSE)]
    /\ offer' = [offer EXCEPT ![r] = VoidOffer]
    /\ UNCHANGED <<root, sd, recorded, unitLog, disciplined, driven>>

\* What a call of Write(hi) on r's StateDir does to the StateDir and the
\* directory; valid tells whether Validate accepts hi at the call.
Written(r, hi, fault, valid) ==
    LET w == Write(sd[r], root, hi, fault)
        again == last[r].op = "Write" /\ last[r].hi = hi
    IN /\ root' = w.fs
       /\ sd' = [sd EXCEPT ![r] = w.d]
       /\ pc' = [pc EXCEPT ![r] = IF w.result = "panic" THEN "crashed" ELSE "idle"]
       /\ cur' = [cur EXCEPT ![r] = NoInfo]
       /\ last' = [last EXCEPT ![r] =
                      Op("Write", hi, Err(w.result), fault, again)]
       /\ disciplined' = [disciplined EXCEPT ![r] = @ /\ valid]
       /\ UNCHANGED driven

\* The hook ran: the loop records it. The histories of the loop follow.
DoWrite(r, fault) ==
    /\ pc[r] = "run"
    /\ Written(r, cur[r], fault, TRUE)
    /\ LET ok == last'[r].err = ErrNil
       IN /\ recorded' = [recorded EXCEPT ![r] =
                             IF ok THEN Recorded(@, cur[r]) ELSE @]
          /\ unitLog' = [unitLog EXCEPT ![r] =
                            IF ok THEN UnitRecorded(@, cur[r]) ELSE @]
          /\ offer' = [offer EXCEPT ![r] = IF ok THEN @ ELSE VoidOffer]

\* A caller outside the loop records an event whether or not Validate accepts
\* it: Write performs no validation of its own.
WriteAny(r, hi) ==
    /\ pc[r] = "idle"
    /\ Written(r, hi, FALSE, Validate(State(sd[r]), hi) = ErrNil)
    /\ recorded' = [recorded EXCEPT ![r] = NoLog]
    /\ unitLog' = [unitLog EXCEPT ![r] = NoUnitLog]
    /\ offer' = [offer EXCEPT ![r] = VoidOffer]

\* StateDir.Ensure
Ensure(r, fault) ==
    /\ pc[r] = "idle"
    /\ LET e == EnsureDir(root, sd[r].path, fault)
       IN /\ root' = e.fs
          /\ last' = [last EXCEPT ![r] =
                         Op("Ensure", NoInfo, Err(e.err), fault, FALSE)]
    /\ offer' = [offer EXCEPT ![r] = Settled(@)]
    /\ UNCHANGED <<sd, pc, cur, recorded, unitLog, disciplined, driven>>

\* The agent dies inside Write(cur[r]): the filesystem operation of Write took
\* effect, the cached state was not updated yet and is lost with the process.
Crash(r) ==
    /\ pc[r] = "run"
    /\ LET w == Write(sd[r], root, cur[r], FALSE)
           ok == w.result = "nil"
       IN /\ root' = w.fs
          /\ recorded' = [recorded EXCEPT ![r] =
                             IF ok THEN Recorded(@, cur[r]) ELSE @]
          /\ unitLog' = [unitLog EXCEPT ![r] =
                            IF ok THEN UnitRecorded(@, cur[r]) ELSE @]
    /\ pc' = [pc EXCEPT ![r] = "crashed"]
    /\ last' = [last EXCEPT ![r] = Op("Crash", cur[r], ErrNil, FALSE, FALSE)]
    /\ offer' = [offer EXCEPT ![r] = VoidOffer]
    /\ UNCHANGED <<sd, cur, disciplined, driven>>

\* The agent stops, at any point of the loop, and starts again: the StateDir
\* is discarded and loaded from the directory by ReadStateDir. The event that
\* was in flight when the agent stopped is kept with the result.
Restart(r) ==
    LET l == ReadStateDir(root, r)
    IN /\ sd' = [sd EXCEPT ![r] = l.d]
       /\ pc' = [pc EXCEPT ![r] = IF l.err = "nil" THEN "idle" ELSE "failed"]
       /\ cur' = [cur EXCEPT ![r] = NoInfo]
       /\ last' = [last EXCEPT ![r] =
                      Op("ReadStateDir", cur[r], Err(l.err), FALSE, FALSE)]
       /\ offer' = [offer EXCEPT ![r] =
                       IF pc[r] = "idle" THEN Settled(@) ELSE VoidOffer]
       /\ UNCHANGED <<root, recorded, unitLog, disciplined, driven>>

Next ==
    \/ \E r \in driven : \E hi \in Offers(r) : DoValidate(r, hi)
    \/ \E r \in driven : HookFails(r)
    \/ \E r \in driven, fault \in BOOLEAN : DoWrite(r, fault)
    \/ \E r \in driven, fault \in BOOLEAN : Ensure(r, fault)
    \/ \E r \in driven : Crash(r)
    \/ \E r \in driven : Restart(r)

Spec == Init /\ [][Next]_vars

\* Callers of Write that do not run the loop.
NextAnyWrite ==
    \/ \E r \in driven : \E hi \in OwnInfos(r) : WriteAny(r, hi)
    \/ \E r \in driven, fault \in BOOLEAN : Ensure(r, fault)
    \/ \E r \in driven : Restart(r)

SpecAnyWrite == Init /\ [][NextAnyWrite]_vars

(* --------------------------- two relations ----------------------------- *)

\* The events of one unit, at one change version, of relation r.
PairInfos(r) ==
    {hi \in OwnInfos(r) : /\ hi.RemoteUnit \in {EmptyString, <<"w", "/", "0">>}
                          /\ hi.ChangeVersion <= 1}

\* The hook ran: the loop records it.
PairWrite(r, fault) ==
    /\ pc[r] = "run"
    /\ Written(r, cur[r], fault, TRUE)
    /\ UNCHANGED <<recorded, unitLog, offer>>

\* Two pipelines, each sequential, drive the two relations under one root.
NextPair ==
    \/ \E r \in driven : \E hi \in PairInfos(r) : DoValidate(r, hi)
    \/ \E r \in driven, fault \in BOOLEAN : PairWrite(r, fault)
    \/ \E r \in driven, fault \in BOOLEAN : Ensure(r, fault)
    \/ \E r \in driven : Restart(r)

\* Both pipelines start; no history of the events is kept.
InitPair == InitWith(RelationIds, VoidOffer)

SpecPair == InitPair /\ [][NextPair]_vars

(* ---------------------------- agent start ------------------------------ *)

\* Relation directories as a starting agent may find them: left by the loop,
\* or damaged since.
Dir(files) == [exists |-> TRUE, files |-> files]
W0 == UnitFileName(<<"w", "/", "0">>)
MS1 == UnitFileName(<<"m", "-", "s", "/", "1">>)
SettledRecord == Marshal(DiskInfo(<<1>>, FALSE))
PendingRecord == Marshal(DiskInfo(<<1>>, TRUE))
NoVersionRecord == Marshal(DiskInfo(<< >>, FALSE))
LoadableDirs ==
    {AbsentDir, EmptyDir, StrayDir,
     Dir(W0 :> PendingRecord),
     Dir((W0 :> SettledRecord) @@ (MS1 :> PendingRecord))}
DamagedDirs ==
    {Dir(W0 :> Garbage),
     Dir(W0 :> NoVersionRecord),
     Dir((W0 :> PendingRecord) @@ (MS1 :> PendingRecord))}

\* No agent runs: the root is as it was left, no StateDir is held.
InitStopped ==
    /\ driven = RelationIds
    /\ root \in [Names -> LoadableDirs \cup DamagedDirs]
    /\ root[RootDir] \in {AbsentDir, EmptyDir} /\ WellFormed(root)
    /\ \A n \in OtherNames : root[n] \in {AbsentDir, EmptyDir}
    /\ sd = [r \in RelationIds |-> NilStateDir]
    /\ pc = [r \in RelationIds |-> "stopped"]
    /\ cur = [r \in RelationIds |-> NoInfo]
    /\ last = [r \in RelationIds |-> Op("none", NoInfo, ErrNil, FALSE, FALSE)]
    /\ recorded = [r \in RelationIds |-> NoLog]
    /\ unitLog = [r \in RelationIds |-> NoUnitLog]
    /\ offer = [r \in RelationIds |-> VoidOffer]
    /\ disciplined = [r \in RelationIds |-> TRUE]

\* The agent starts and loads every relation with ReadAllStateDirs: it holds
\* the StateDirs returned, and none when the load failed.
LoadAll ==
    LET l == ReadAllStateDirs(root)
    IN /\ sd' = [r \in RelationIds |->
                    IF MapHas(l.dirs, r) THEN l.dirs.kv[r] ELSE NilStateDir]
       /\ pc' = [r \in RelationIds |->
                    IF l.err # "nil" THEN "failed"
                    ELSE IF MapHas(l.dirs, r) THEN "idle" ELSE "stopped"]
       /\ cur' = [r \in RelationIds |-> NoInfo]
       /\ last' = [r \in RelationIds |->
                      Op("ReadAllStateDirs", NoInfo, Err(l.err), FALSE, FALSE)]
       /\ offer' = [r \in RelationIds |-> VoidOffer]
       /\ UNCHANGED <<root, recorded, unitLog, disciplined, driven>>

NextStart ==
    \/ LoadAll
    \/ \E r \in driven : Restart(r)

SpecStart == InitStopped /\ [][NextStart]_vars

(* ------------------------------- drain --------------------------------- *)

\* The relation whose pipeline is drained.
DrainIds == {7}

\* The record files the loop can leave in a relation's directory: for any of
\* the units a record at any version, at most one of them changed-pending.
UnitRecords == {Marshal(DiskInfo(<<v>>, p)) : v \in Versions, p \in BOOLEAN}
LeftRecords ==
    {f \in UNION {[S -> UnitRecords] : S \in SUBSET {W0, MS1}} :
        Cardinality({n \in DOMAIN f : Unmarshal(f[n]).ChangedPending}) <= 1}

\* The directories the loop can leave: none, or the records with or without
\* an entry that is no unit file.
LeftDirs ==
    {AbsentDir} \cup {Dir(f) : f \in LeftRecords}
        \cup {Dir(f @@ (StrayName :> Garbage)) : f \in LeftRecords}

\* A root, missing or not, that holds directory d for the drained relation
\* and nothing else.
LeftRoot(d, e) ==
    [n \in Names |-> IF n \in {DirPath(r) : r \in DrainIds} THEN d
                     ELSE IF n = RootDir THEN e
                     ELSE AbsentDir]

\* The agent starts on a directory the loop left; no history is kept.
InitDrain ==
    /\ driven = DrainIds
    /\ root \in {LeftRoot(d, e) : d \in LeftDirs, e \in {AbsentDir, EmptyDir}}
    /\ WellFormed(root)
    /\ sd = [r \in RelationIds |-> ReadStateDir(root, r).d]
    /\ pc = [r \in RelationIds |-> "idle"]
    /\ cur = [r \in RelationIds |-> NoInfo]
    /\ last = [r \in RelationIds |->
                  Op("ReadStateDir", NoInfo, ErrNil, FALSE, FALSE)]
    /\ recorded = [r \in RelationIds |-> NoLog]
    /\ unitLog = [r \in RelationIds |-> NoUnitLog]
    /\ offer = [r \in RelationIds |-> VoidOffer]
    /\ disciplined = [r \in RelationIds |-> TRUE]

\* The events the event source still delivers once no unit joins any more:
\* the changed that is owed, the departed of the units, relation-broken.
DrainOffers(r) ==
    {hi \in OwnInfos(r) :
        \/ hi.Kind \in {RelationDeparted, RelationBroken}
        \/ hi.Kind = RelationChanged
             /\ hi.RemoteUnit = sd[r].state.ChangedPending}

\* One of these events is validated and accepted: its hook is run.
DrainAccept(r) ==
    \E hi \in DrainOffers(r) : DoValidate(r, hi) /\ pc'[r] = "run"

\* The loop with no unit joining and every filesystem call let through.
NextDrain ==
    \/ \E r \in driven : \E hi \in DrainOffers(r) : DoValidate(r, hi)
    \/ \E r \in driven : DoWrite(r, FALSE)
    \/ \E r \in driven : Ensure(r, FALSE)

\* An event that validates is eventually run, and a hook that ran is
\* eventually recorded.
SpecDrain ==
    /\ InitDrain /\ [][NextDrain]_vars
    /\ \A r \in DrainIds : WF_vars(DrainAccept(r)) /\ WF_vars(DoWrite(r, FALSE))

(* ------------------------------- claims -------------------------------- *)

Cached(r) == State(sd[r])
Verdicts(r) == [hi \in Offers(r) |-> Validate(Cached(r), hi)]
Validated(r) == last[r].op = "Validate"
Wrote(r, kind) ==
    last[r].op = "Write" /\ last[r].hi.Kind = kind /\ last[r].err = ErrNil

\* C1, as stated: whenever the events offered so far follow the per-unit
\* order (joined, changed, further changed, departed; relation-broken once
\* every unit is out) and every Write succeeded, the validation just made
\* returned no error.
C1_PerUnitOrderNeverRejected ==
    \A r \in driven :
        (Validated(r) /\ offer[r].perUnit) => last[r].err = ErrNil

\* C1, amended: the same when, in addition, every joined is directly
\* followed by the changed of the same unit.
C1_ProtocolNeverRejected ==
    \A r \in driven :
        (Validated(r) /\ offer[r].adjacent) => last[r].err = ErrNil

\* Two units went through joined, changed, departed and the relation-broken
\* hook was recorded, all following the protocol.
C1_Witness ==
    \E r \in driven :
        /\ offer[r].adjacent /\ offer[r].torn
        /\ Wrote(r, RelationBroken)
        /\ \A u \in Units : unitLog[r][u][Len(unitLog[r][u])] = RelationDeparted

\* The kinds that may follow each other in the events recorded for one unit.
KindFollows(k1, k2) ==
    \/ k1 \in {"none", RelationDeparted} /\ k2 = RelationJoined
    \/ k1 \in {RelationJoined, RelationChanged} /\ k2 = RelationChanged
    \/ k1 = RelationChanged /\ k2 = RelationDeparted

LastKind(r, u) == unitLog[r][u][Len(unitLog[r][u])]

\* C2: the events recorded for a unit go joined, changed, further changed,
\* departed; the event recorded next after a joined is the changed of the same
\* unit; relation-broken is recorded only when every unit is out.
C2_RecordedOrder ==
    \A r \in driven :
        /\ \A u \in Units : \A i \in 1..(Len(unitLog[r][u]) - 1) :
               KindFollows(unitLog[r][u][i], unitLog[r][u][i + 1])
        /\ \A i \in 1..(Len(recorded[r]) - 1) :
               recorded[r][i].Kind = RelationJoined =>
                   recorded[r][i + 1] =
                       [Kind |-> RelationChanged,
                        RemoteUnit |-> recorded[r][i].RemoteUnit]
        /\ (Len(recorded[r]) > 0
              /\ recorded[r][Len(recorded[r])].Kind = RelationBroken) =>
               \A u \in Units : LastKind(r, u) \in {"none", RelationDeparted}

\* A unit's joined and first changed were recorded while another unit was a
\* member.
C2_Witness ==
    \E r \in driven : \E u \in Units, o \in Units :
        /\ o # u
        /\ recorded[r] = <<[Kind |-> RelationJoined, RemoteUnit |-> u],
                           [Kind |-> RelationChanged, RemoteUnit |-> u]>>
        /\ LastKind(r, o) = RelationChanged

\* What Validate answers to each event of the relation right after the
\* joined of unit u was written.
AfterJoined(r, u) == Wrote(r, RelationJoined) /\ last[r].hi.RemoteUnit = u
IsChangedOf(hi, u) == hi.Kind = RelationChanged /\ hi.RemoteUnit = u

\* C3, as stated: after Write of joined for u, Validate accepts the changed
\* of u and rejects every other event of the relation with
\* PendingChangeRequired naming u.
C3_OnlyChangedElsePending ==
    \A r \in driven : \A u \in Units :
        AfterJoined(r, u) =>
            \A hi \in OwnInfos(r) :
                Verdicts(r)[hi] =
                    IF IsChangedOf(hi, u) THEN ErrNil
                    ELSE PendingChangeRequired(u)

\* C3, amended: after Write of joined for u, Validate accepts the changed of
\* u, rejects every other joined, changed and departed event of the relation
\* with PendingChangeRequired naming u, and rejects relation-broken with
\* UnitsStillPresent.
C3_OnlyChangedAccepted ==
    \A r \in driven : \A u \in Units :
        AfterJoined(r, u) =>
            \A hi \in OwnInfos(r) :
                Verdicts(r)[hi] =
                    IF IsChangedOf(hi, u) THEN ErrNil
                    ELSE IF hi.Kind = RelationBroken THEN UnitsStillPresent
                    ELSE PendingChangeRequired(u)

\* The joined of a unit was just written while another unit is a member.
C3_Witness ==
    \E r \in driven : \E u \in Units :
        AfterJoined(r, u) /\ MapLen(Cached(r).Members) = 2

\* C4: against a state that is not torn down, relation-broken of the same
\* relation is rejected with UnitsStillPresent when Members is non-empty and
\* accepted when it is empty, whatever the changed-pending unit.
C4_BrokenIffNoMembers ==
    \A r \in driven :
        ~Cached(r).Members.nil =>
            \A hi \in OwnInfos(r) :
                hi.Kind = RelationBroken =>
                    Verdicts(r)[hi] =
                        IF MapLen(Cached(r).Members) = 0 THEN ErrNil
                        ELSE UnitsStillPresent

\* relation-broken was rejected with UnitsStillPresent while a changed hook
\* was pending.
C4_Witness ==
    \E r \in driven :
        /\ Validated(r) /\ last[r].hi.Kind = RelationBroken
        /\ last[r].err = UnitsStillPresent
        /\ Cached(r).ChangedPending # EmptyString

C6_NotJoinedAlways ==
    \A r \in driven : \A hi \in OwnInfos(r) :
        (hi.Kind \in {RelationChanged, RelationDeparted}
           /\ ~MapHas(Cached(r).Members, hi.RemoteUnit)) =>
            Verdicts(r)[hi] = NotJoined

\* C6, amended: a changed or departed event of the relation for a unit that
\* is not in Members is rejected with NotJoined whenever the state is not
\* torn down and no changed-pending unit is set.
C6_NotJoinedUnlessPending ==
    \A r \in driven : \A hi \in OwnInfos(r) :
        (hi.Kind \in {RelationChanged, RelationDeparted}
           /\ ~MapHas(Cached(r).Members, hi.RemoteUnit)
           /\ ~Cached(r).Members.nil
           /\ Cached(r).ChangedPending = EmptyString) =>
            Verdicts(r)[hi] = NotJoined

\* A departed for a unit that never joined was rejected with NotJoined while
\* the other unit is a member.
C6_Witness ==
    \E r \in driven :
        /\ Validated(r) /\ last[r].hi.Kind = RelationDeparted
        /\ last[r].err = NotJoined
        /\ MapLen(Cached(r).Members) = 1

\* C7, as stated: a joined event for a unit in Members is rejected with
\* AlreadyJoined.
C7_AlreadyJoinedAlways ==
    \A r \in driven : \A hi \in OwnInfos(r) :
        (hi.Kind = RelationJoined
           /\ MapHas(Cached(r).Members, hi.RemoteUnit)) =>
            Verdicts(r)[hi] = AlreadyJoined

\* C7, amended: a joined event of the relation for a unit in Members is
\* always rejected: with AlreadyJoined when no changed-pending unit is set,
\* and with PendingChangeRequired naming the pending unit otherwise, as for
\* a second joined right after the first was written.
C7_JoinedMemberRejected ==
    \A r \in driven : \A hi \in OwnInfos(r) :
        (hi.Kind = RelationJoined
           /\ MapHas(Cached(r).Members, hi.RemoteUnit)) =>
            Verdicts(r)[hi] =
                IF Cached(r).ChangedPending = EmptyString THEN AlreadyJoined
                ELSE PendingChangeRequired(Cached(r).ChangedPending)

\* A second joined for a member was rejected with AlreadyJoined.
C7_Witness ==
    \E r \in driven :
        /\ Validated(r) /\ last[r].hi.Kind = RelationJoined
        /\ last[r].err = AlreadyJoined
        /\ MapHas(Cached(r).Members, last[r].hi.RemoteUnit)

\* A step in which Write is called with the event of the Write just before
\* it, no fault of the filesystem being injected in either call.
SecondWrite(r) ==
    /\ last'[r].op = "Write" /\ last'[r].again
    /\ ~last[r].fault /\ ~last'[r].fault

SameAfterSecond(r) ==
    /\ sd'[r] = sd[r]
    /\ root'[sd[r].path] = root[sd[r].path]

\* C8, as stated: the second of two successive Writes of one event leaves
\* the cached state and the directory as the first left them, and returns no
\* error.
C8_IdempotentNoError ==
    [][\A r \in driven :
          SecondWrite(r) => SameAfterSecond(r) /\ last'[r].err = ErrNil]_vars

\* C8, amended: the second Write leaves the cached state and the directory
\* as the first left them and returns what the first returned: no error
\* when the first returned none.
C8_Idempotent ==
    [][\A r \in driven :
          SecondWrite(r) => SameAfterSecond(r) /\ last'[r].err = last[r].err]_vars

\* A departed was written twice in a row, the second Write finding the file
\* already absent.
C8_Witness ==
    \E r \in driven :
        /\ Wrote(r, RelationDeparted) /\ last[r].again /\ ~last[r].fault
        /\ MapLen(Cached(r).Members) = 1

Reloaded(r) == ReadStateDir(root, r)
RoundTrips(r) == Reloaded(r).err = "nil" /\ Reloaded(r).d = sd[r]

\* C9, as stated: after any joined, changed and departed Writes,
\* ReadStateDir returns without error a StateDir equal to the cached one.
C9_RoundTripAnyWrites ==
    \A r \in driven :
        (pc[r] = "idle" /\ ~sd[r].state.Members.nil) => RoundTrips(r)

\* C9, amended: the same after joined, changed and departed Writes each of
\* an event that Validate accepted against the cached state.
C9_RoundTrip ==
    \A r \in driven :
        (disciplined[r] /\ pc[r] = "idle" /\ ~sd[r].state.Members.nil) =>
            RoundTrips(r)

\* The StateDir was loaded anew after validated Writes that left two
\* members, one of them changed-pending.
C9_Witness ==
    \E r \in driven :
        /\ disciplined[r]
        /\ last[r].op = "ReadStateDir" /\ last[r].err = ErrNil
        /\ MapLen(Cached(r).Members) = 2
        /\ Cached(r).ChangedPending # EmptyString

\* C10: a Write that returns an error leaves the cached state as it was,
\* and a Write whose filesystem operation fails returns the error at once.
C10_ErrorLeavesCache ==
    [][\A r \in driven :
          /\ (last'[r].op = "Write" /\ last'[r].err = Err("error")) =>
                 sd'[r] = sd[r]
          /\ (last'[r].op = "Write" /\ last'[r].fault) =>
                 last'[r].err = Err("error")]_vars

\* The Write of a validated departed failed on the filesystem and the unit is
\* still a member.
C10_Witness ==
    \E r \in driven :
        /\ last[r].op = "Write" /\ last[r].hi.Kind = RelationDeparted
        /\ last[r].fault /\ last[r].err = Err("error")
        /\ MapHas(Cached(r).Members, last[r].hi.RemoteUnit)

\* What a Write of the event in flight that runs to its end makes of the
\* StateDir and the directory.
Completed(r) == Write(sd[r], root, cur[r], FALSE)

\* The agent starts again after it stopped with a validated event in flight:
\* before Write was called, or inside Write after its filesystem operation.
RestartInFlight(r) ==
    last'[r].op = "ReadStateDir" /\ pc[r] \in {"run", "crashed"}

\* The agent starts again right after Write returned.
RestartAfterWrite(r) ==
    last'[r].op = "ReadStateDir" /\ pc[r] = "idle" /\ last[r].op = "Write"

\* C11: when the agent stops before, inside or after the Write of an event e
\* validated against the cached state s, ReadStateDir at the restart returns
\* no error and either s or the state a completed Write(e) leaves in the
\* directory; when it returns s, Validate accepts e again.
C11_CrashAtomicResume ==
    [][\A r \in driven :
          /\ RestartInFlight(r) =>
                 /\ last'[r].err = ErrNil
                 /\ sd'[r] \in {sd[r], Completed(r).d}
                 /\ sd'[r] = sd[r] => Validate(State(sd'[r]), cur[r]) = ErrNil
          /\ RestartAfterWrite(r) =>
                 /\ last'[r].err = ErrNil
                 /\ sd'[r] = IF Wrote(r, RelationBroken)
                             THEN StateDir(DirPath(r), NewState(r))
                             ELSE sd[r]
                 /\ last[r].err # ErrNil =>
                        Validate(State(sd'[r]), last[r].hi) = ErrNil]_vars

\* The agent started again after it died inside the Write of a unit's joined
\* while another unit was a member: the joined is found recorded.
C11_Witness ==
    \E r \in driven :
        /\ last[r].op = "ReadStateDir" /\ last[r].err = ErrNil
        /\ last[r].hi.Kind = RelationJoined
        /\ Cached(r).ChangedPending = last[r].hi.RemoteUnit
        /\ MapLen(Cached(r).Members) = 2

\* The record file of unit u in the directory of relation r, when there is one.
HasRecord(r, u) ==
    /\ root[DirPath(r)].exists
    /\ UnitFileName(u) \in DOMAIN root[DirPath(r)].files
Record(r, u) == root[DirPath(r)].files[UnitFileName(u)]

\* C12: after a successful Write of joined (u, v) the record file of u holds
\* change-version v and changed-pending true, Members[u] is v and
\* ChangedPending is u; after a successful Write of changed (u, v) the file
\* holds change-version v and no changed-pending field, Members[u] is v and
\* ChangedPending is empty; after a successful Write of departed for u there
\* is no record file of u and u is not in Members.
C12_WriteEffects ==
    \A r \in driven :
        LET u == last[r].hi.RemoteUnit
            v == last[r].hi.ChangeVersion
        IN /\ Wrote(r, RelationJoined) =>
                  /\ HasRecord(r, u)
                  /\ Record(r, u) =
                         YamlFile(("change-version" :> v)
                                      @@ ("changed-pending" :> TRUE))
                  /\ MapHas(Cached(r).Members, u)
                  /\ Cached(r).Members.kv[u] = v
                  /\ Cached(r).ChangedPending = u
           /\ Wrote(r, RelationChanged) =>
                  /\ HasRecord(r, u)
                  /\ Record(r, u) = YamlFile("change-version" :> v)
                  /\ MapHas(Cached(r).Members, u)
                  /\ Cached(r).Members.kv[u] = v
                  /\ Cached(r).ChangedPending = EmptyString
           /\ Wrote(r, RelationDeparted) =>
                  /\ ~HasRecord(r, u)
                  /\ ~MapHas(Cached(r).Members, u)

\* The changed of a unit was written while the other unit was the
\* changed-pending one: that unit's record still carries the flag and
\* ChangedPending is empty.
C12_Witness ==
    \E r \in driven : \E o \in Units :
        /\ Wrote(r, RelationChanged)
        /\ o # last[r].hi.RemoteUnit
        /\ HasRecord(r, o)
        /\ "changed-pending" \in DOMAIN Record(r, o).fields
        /\ Cached(r).ChangedPending = EmptyString

\* A step in which Write is called with the relation-broken hook, no fault of
\* the filesystem being injected.
WritesBroken(r) ==
    /\ last'[r].op = "Write" /\ last'[r].hi.Kind = RelationBroken
    /\ ~last'[r].fault

\* The directory of relation r exists and has entries.
HasEntries(r) ==
    root[DirPath(r)].exists /\ DOMAIN root[DirPath(r)].files # {}

\* C13, as stated: Write of relation-broken deletes the relation's directory
\* with all it holds, tolerating that it is absent, and sets Members to nil:
\* it returns no error and the directory does not exist afterwards.
C13_TeardownDeletesAll ==
    [][\A r \in driven :
          WritesBroken(r) =>
              /\ last'[r].err = ErrNil
              /\ ~root'[DirPath(r)].exists
              /\ sd'[r].state.Members.nil]_vars

\* C13, amended: Write of relation-broken deletes the relation's directory
\* when it is empty, tolerating that it is absent, and sets Members to nil; on
\* a directory that has entries it returns an error and leaves the directory
\* and the cached state as they were. After it returned no error the
\* directory does not exist.
C13_TeardownDeletesEmpty ==
    [][\A r \in driven :
          WritesBroken(r) =>
              IF HasEntries(r)
              THEN /\ last'[r].err = Err("error")
                   /\ sd'[r] = sd[r]
                   /\ root' = root
              ELSE /\ last'[r].err = ErrNil
                   /\ ~root'[DirPath(r)].exists
                   /\ sd'[r] = [sd[r] EXCEPT !.state.Members = NilMap]
                   /\ \A q \in RelationIds \ {r} :
                          root'[DirPath(q)] = root[DirPath(q)]]_vars

\* Write of relation-broken returned an error on a directory that holds the
\* record of a member.
C13_Witness ==
    \E r \in driven : \E u \in Units :
        /\ last[r].op = "Write" /\ last[r].hi.Kind = RelationBroken
        /\ ~last[r].fault /\ last[r].err = Err("error")
        /\ HasRecord(r, u) /\ MapHas(Cached(r).Members, u)

FreshStateDir(r) ==
    StateDir(<<Alphabet[4 + r]>>,
             [RelationId |-> r, Members |-> MakeMap(EmptyMap),
              ChangedPending |-> EmptyString])

\* C14: ReadStateDir for a relation whose directory does not exist under the
\* root, the root itself being missing or empty included, returns no error
\* and a StateDir with that relation id, an empty non-nil Members and an
\* empty ChangedPending.
C14_MissingDirLoadsEmpty ==
    \A r \in driven :
        (last[r].op = "ReadStateDir" /\ ~root[DirPath(r)].exists) =>
            /\ last[r].err = ErrNil
            /\ pc[r] = "idle"
            /\ sd[r] = FreshStateDir(r)
            /\ ~sd[r].state.Members.nil /\ MapLen(sd[r].state.Members) = 0

\* ReadStateDir was called for a relation under a root that does not exist.
C14_Witness ==
    \E r \in driven :
        /\ last[r].op = "ReadStateDir" /\ last[r].err = ErrNil
        /\ ~root[RootDir].exists

\* The relation ids of the root's entries whose names are integers.
QualifyingIds == {Atoi(n) : n \in {e \in RootEntries(root) : AtoiOk(e)}}

LoadedAll == \A r \in RelationIds : last[r].op = "ReadAllStateDirs"
LoadError == last[7].err # ErrNil

\* C15: ReadAllStateDirs returns no StateDir and no error when the root does
\* not exist; an error and no StateDir at all when the load of any relation
\* with an entry fails; and otherwise no error and, for each relation id
\* with an entry, the StateDir ReadStateDir loads for it, holding that
\* relation id, and no other StateDir.
C15_AllOrNothing ==
    LoadedAll =>
        IF ~root[RootDir].exists
        THEN ~LoadError /\ \A r \in RelationIds : sd[r] = NilStateDir
        ELSE IF \E id \in QualifyingIds : ReadStateDir(root, id).err # "nil"
        THEN LoadError /\ \A r \in RelationIds : sd[r] = NilStateDir
        ELSE /\ ~LoadError
             /\ \A r \in RelationIds :
                    IF r \in QualifyingIds
                    THEN /\ sd[r] = ReadStateDir(root, r).d
                         /\ sd[r].state.RelationId = r
                    ELSE sd[r] = NilStateDir

\* ReadAllStateDirs failed on the second relation after it had loaded the
\* first, which has a member: no StateDir is held.
C15_Witness ==
    /\ LoadedAll /\ LoadError
    /\ ReadStateDir(root, 7).err = "nil"
    /\ MapLen(ReadStateDir(root, 7).d.state.Members) = 2
    /\ ReadStateDir(root, 8).err # "nil"
    /\ \A r \in RelationIds : sd[r] = NilStateDir

\* The agent runs the loop of relation r and holds its StateDir.
Live(r) == pc[r] \in {"idle", "run"}

\* The units whose record file carries the changed-pending flag.
Flagged(r) ==
    {u \in Units : /\ HasRecord(r, u)
                   /\ "changed-pending" \in DOMAIN Record(r, u).fields
                   /\ Record(r, u).fields["changed-pending"]}

\* The cached state is what the directory holds.
InSync(r) ==
    /\ Reloaded(r).err = "nil"
    /\ Reloaded(r).d.state = sd[r].state
    /\ Cardinality(Flagged(r)) <= 1
    /\ {u \in Units : HasRecord(r, u)} = DOMAIN sd[r].state.Members.kv
    /\ \A u \in DOMAIN sd[r].state.Members.kv :
           Record(r, u).fields["change-version"] = sd[r].state.Members.kv[u]
    /\ Flagged(r) = {u \in Units : u = sd[r].state.ChangedPending}

\* C16, as stated: in every state of the validate-then-Write loop, after
\* failed Writes too, ReadStateDir loads from the directory the cached state:
\* at most one record is flagged changed-pending, the record files are those
\* of the keys of Members with their change versions, and the flagged unit is
\* ChangedPending.
C16_CacheIsDirectory ==
    \A r \in driven : Live(r) => InSync(r)

\* C16, amended: the same in every state in which relation-broken was not
\* written; after it was written Members is nil in the cache while
\* ReadStateDir loads an empty Members that is not nil.
C16_CacheIsDirectoryUntilBroken ==
    \A r \in driven :
        Live(r) =>
            IF sd[r].state.Members.nil
            THEN /\ Reloaded(r).err = "nil"
                 /\ Reloaded(r).d.state =
                        [sd[r].state EXCEPT !.Members = MakeMap(EmptyMap)]
            ELSE InSync(r)

\* The Write of the changed owed by a unit failed on the filesystem while
\* another unit is a member.
C16_Witness ==
    \E r \in driven :
        /\ Live(r)
        /\ last[r].op = "Write" /\ last[r].fault /\ last[r].err = Err("error")
        /\ MapLen(Cached(r).Members) = 2
        /\ Cached(r).ChangedPending = last[r].hi.RemoteUnit

\* A step that records the departed of a unit in the directory: a Write that
\* returns no error, or one cut short after its filesystem operation.
RecordsDeparted(r) ==
    /\ last'[r].op \in {"Write", "Crash"}
    /\ last'[r].hi.Kind = RelationDeparted
    /\ last'[r].err = ErrNil

\* C17: in every state of the validate-then-Write loop a non-empty
\* ChangedPending is a key of Members, and the departed of the
\* changed-pending unit is never recorded.
C17_PendingIsMember ==
    /\ [](\A r \in driven :
             sd[r].state.ChangedPending # EmptyString =>
                 MapHas(sd[r].state.Members, sd[r].state.ChangedPending))
    /\ [][\A r \in driven :
             RecordsDeparted(r) =>
                 last'[r].hi.RemoteUnit # sd[r].state.ChangedPending]_vars

\* The departed of the changed-pending unit was offered and rejected while
\* the other unit is a member.
C17_Witness ==
    \E r \in driven :
        /\ Validated(r) /\ last[r].hi.Kind = RelationDeparted
        /\ last[r].hi.RemoteUnit = Cached(r).ChangedPending
        /\ last[r].err = PendingChangeRequired(Cached(r).ChangedPending)
        /\ MapLen(Cached(r).Members) = 2

\* A step in which Write is called with the joined, changed or departed of a
\* unit: it returns, with or without an error, or the agent dies inside it.
WritesUnit(r) ==
    /\ pc[r] = "run"
    /\ last'[r].op \in {"Write", "Crash"}
    /\ last'[r].hi.Kind \in {RelationJoined, RelationChanged, RelationDeparted}

\* The entries of r's directory other than the one named name are the same
\* before and after the step.
OtherEntriesKept(r, name) ==
    LET before == root[DirPath(r)]
        after == root'[DirPath(r)]
    IN /\ after.exists = before.exists
       /\ (DOMAIN after.files) \ {name} = (DOMAIN before.files) \ {name}
       /\ \A n \in (DOMAIN before.files) \ {name} :
              after.files[n] = before.files[n]

\* The members other than unit are the same before and after the step.
OtherMembersKept(r, unit) ==
    LET before == sd[r].state.Members.kv
        after == sd'[r].state.Members.kv
    IN /\ (DOMAIN after) \ {unit} = (DOMAIN before) \ {unit}
       /\ \A o \in (DOMAIN before) \ {unit} : after[o] = before[o]

\* C18: a Write of the joined, changed or departed of unit u, whether it
\* succeeds, fails or is cut short by a crash, leaves every entry of the
\* directory but u's record file, every other directory, and the Members
\* entry of every other unit as they were.
C18_WriteTouchesOneUnit ==
    [][\A r \in driven :
          WritesUnit(r) =>
              /\ OtherEntriesKept(r, UnitFileName(last'[r].hi.RemoteUnit))
              /\ OtherMembersKept(r, last'[r].hi.RemoteUnit)
              /\ \A n \in Names \ {DirPath(r)} : root'[n] = root[n]]_vars

\* The agent died inside the Write of a unit's departed, after the record was
\* removed, while the other unit is a member with its record.
C18_Witness ==
    \E r \in driven : \E o \in Units :
        /\ last[r].op = "Crash" /\ last[r].hi.Kind = RelationDeparted
        /\ ~HasRecord(r, last[r].hi.RemoteUnit)
        /\ MapHas(Cached(r).Members, last[r].hi.RemoteUnit)
        /\ o # last[r].hi.RemoteUnit
        /\ HasRecord(r, o) /\ MapHas(Cached(r).Members, o)

\* What the agent holds of relation r, and r's directory.
Held(r) == <<sd[r], pc[r], cur[r], last[r]>>
Own(r) == <<Held(r), root[DirPath(r)]>>

\* The filesystem as it would be with the pipeline of r running alone: no
\* other relation has a directory.
Alone(fs, r) ==
    [n \in DOMAIN fs |-> IF n \in {DirPath(r), RootDir} THEN fs[n] ELSE AbsentDir]

\* The step does to r's StateDir and directory what the same call does when
\* the pipeline of r runs alone.
AsAlone(r) ==
    LET op == last'[r].op
        hi == last'[r].hi
        fault == last'[r].fault
        w == Write(sd[r], Alone(root, r), hi, fault)
        e == EnsureDir(Alone(root, r), sd[r].path, fault)
        l == ReadStateDir(Alone(root, r), r)
    IN /\ op = "Validate" =>
              /\ last'[r].err = Validate(State(sd[r]), last'[r].hi)
              /\ sd'[r] = sd[r] /\ root'[DirPath(r)] = root[DirPath(r)]
       /\ op = "Write" =>
              /\ last'[r].err = Err(w.result)
              /\ sd'[r] = w.d /\ root'[DirPath(r)] = w.fs[DirPath(r)]
       /\ op = "Ensure" =>
              /\ last'[r].err = Err(e.err)
              /\ sd'[r] = sd[r] /\ root'[DirPath(r)] = e.fs[DirPath(r)]
       /\ op = "ReadStateDir" =>
              /\ last'[r].err = Err(l.err)
              /\ sd'[r] = l.d /\ root'[DirPath(r)] = root[DirPath(r)]

\* C19: in every step of two pipelines driving two relations under one
\* root, the pipeline that acts changes neither the StateDir nor the
\* directory of the other relation, and what it does to its own is what the
\* same call does when it runs alone.
C19_RelationsIndependent ==
    [][\A r \in driven :
          Held(r)' # Held(r) =>
              /\ AsAlone(r)
              /\ \A q \in driven \ {r} : Own(q)' = Own(q)]_vars

\* Both relations have the same unit as a member, changed-pending in one and
\* not in the other, and the first has just recorded the unit's changed.
C19_Witness ==
    /\ Wrote(7, RelationChanged) /\ HasRecord(7, last[7].hi.RemoteUnit)
    /\ Cached(7).ChangedPending = EmptyString
    /\ Cached(8).ChangedPending = last[7].hi.RemoteUnit
    /\ HasRecord(8, last[7].hi.RemoteUnit)

\* A step in which the StateDir of a relation whose relation-broken hook was
\* written is discarded and loaded anew.
ReloadsBroken(r) ==
    sd[r].state.Members.nil /\ last'[r].op = "ReadStateDir"

\* C20: that relation-broken was written is not kept in the directory: a
\* later ReadStateDir returns no error and an empty state that is not
\* broken, against which Validate accepts a joined and a relation-broken
\* hook.
C20_BrokenNotPersisted ==
    [][\A r \in driven :
          ReloadsBroken(r) =>
              /\ last'[r].err = ErrNil
              /\ sd'[r] = FreshStateDir(r)
              /\ \A hi \in OwnInfos(r) :
                     hi.Kind \in {RelationJoined, RelationBroken} =>
                         Validate(State(sd'[r]), hi) = ErrNil]_vars

\* The agent started again after a unit departed and relation-broken was
\* recorded: the state loaded is not broken.
C20_Witness ==
    \E r \in driven : \E u \in Units :
        /\ last[r].op = "ReadStateDir" /\ last[r].err = ErrNil
        /\ recorded[r] = <<[Kind |-> RelationDeparted, RemoteUnit |-> u],
                           [Kind |-> RelationBroken, RemoteUnit |-> EmptyString]>>
        /\ ~Cached(r).Members.nil

\* Against a state that is not broken some event of the relation validates.
SomeEventValidates(r) ==
    ~Cached(r).Members.nil =>
        \E hi \in OwnInfos(r) : Validate(Cached(r), hi) = ErrNil

\* relation-broken was validated and recorded: no member is left.
Drained(r) == sd[r].state.Members.nil /\ MapLen(sd[r].state.Members) = 0

\* The directory of relation r holds nothing but unit records.
OnlyRecords(r) ==
    DOMAIN root[DirPath(r)].files \subseteq {UnitFileName(u) : u \in Units}

====
